---------------------------- MODULE Spec2Model ----------------------------
(***************************************************************************)
(* Model of pdf2ppt.watermark.remove_watermark                             *)
(* (src/src/pdf2ppt/watermark.py): one call, from fitz.open to the return  *)
(* or to the exception that leaves the function.                           *)
(*                                                                         *)
(* Page coordinates and colour channels are Python floats in the code;     *)
(* here they are exact rationals [n, d] (n/d, d > 0), so the arithmetic of *)
(* lines 31-48 is carried out as written, without rounding error.          *)
(*                                                                         *)
(* A page is its rectangle plus the ordered list of the drawing operations *)
(* of its content stream.  Rendering a point yields the colour of the last *)
(* operation that paints it (white paper if none does); a pixel has the    *)
(* colour rendered at its centre (no anti-aliasing).  Page content is made *)
(* of filled and outlined rectangles only, as page.draw_rect produces.     *)
(***************************************************************************)
EXTENDS Integers, Sequences, FiniteSets, TLC

\* ------------------------------------------------------------------ bounds
\* Longest input document considered (number of pages).
MaxPages == 2

\* ------------------------------------------------- rationals (Python floats)
Q(k) == [n |-> k, d |-> 1]

QAdd(a, b) == [n |-> a.n * b.d + b.n * a.d, d |-> a.d * b.d]

QSub(a, b) == [n |-> a.n * b.d - b.n * a.d, d |-> a.d * b.d]

QMul(a, b) == [n |-> a.n * b.n, d |-> a.d * b.d]

\* a / b for b > 0 (the only divisors of the code are 255 and img.width)
QDiv(a, b) == [n |-> a.n * b.d, d |-> a.d * b.n]

QEq(a, b) == a.n * b.d = b.n * a.d

QLe(a, b) == a.n * b.d <= b.n * a.d

QLt(a, b) == a.n * b.d < b.n * a.d

QMax(a, b) == IF QLe(a, b) THEN b ELSE a

QMin(a, b) == IF QLe(a, b) THEN a ELSE b

\* floor and ceiling of a rational (\div rounds towards minus infinity)
QFloor(a) == a.n \div a.d

QCeil(a) == -((-a.n) \div a.d)

\* ------------------------------------------------------- fitz.Rect, colours
\* Python's None where a colour is expected
None == << >>

\* fitz.Rect(x0, y0, x1, y1)
Rect(x0, y0, x1, y1) == [x0 |-> x0, y0 |-> y0, x1 |-> x1, y1 |-> y1]

RectWidth(r) == QSub(r.x1, r.x0)

RectHeight(r) == QSub(r.y1, r.y0)

\* a colour is a triple of channel values in [0, 1]
RGB(r, g, b) == <<r, g, b>>

Pct(k) == [n |-> k, d |-> 100]

\* ------------------------------------------------------------------- pages
\* doc.new_page(width, height): an empty page
new_page(width, height) == [rect |-> Rect(Q(0), Q(0), Q(width), Q(height)), ops |-> << >>]

\* page.draw_rect(rect, color=color, fill=fill): appends one fill-and-stroke
\* operation to the page's content; the outline is stroked with draw_rect's
\* line width, centred on the rectangle's edges.
StrokeWidth == 1

draw_rect(page, rect, color, fill) ==
    [page EXCEPT !.ops = Append(@, [rect |-> rect, color |-> color, fill |-> fill,
                                    width |-> Q(StrokeWidth)])]

HalfWidth(op) == QDiv(op.width, Q(2))

\* p is within distance h of the closed rectangle r, on each axis
Within(p, r, h) ==
    /\ QLe(QSub(r.x0, h), p.x)
    /\ QLe(p.x, QAdd(r.x1, h))
    /\ QLe(QSub(r.y0, h), p.y)
    /\ QLe(p.y, QAdd(r.y1, h))

\* p is more than distance h inside the rectangle r
Inside(p, r, h) ==
    /\ QLt(QAdd(r.x0, h), p.x)
    /\ QLt(p.x, QSub(r.x1, h))
    /\ QLt(QAdd(r.y0, h), p.y)
    /\ QLt(p.y, QSub(r.y1, h))

\* the outline of op paints p: p is within half a line width of the edge
InStroke(op, p) ==
    /\ op.color # None
    /\ Within(p, op.rect, HalfWidth(op))
    /\ ~ Inside(p, op.rect, HalfWidth(op))

InFill(op, p) == op.fill # None /\ Within(p, op.rect, Q(0))

Paints(op, p) ==
    /\ Within(p, op.rect, HalfWidth(op))
    /\ (InStroke(op, p) \/ InFill(op, p))

\* the outline is painted after the fill
PaintColour(op, p) == IF InStroke(op, p) THEN op.color ELSE op.fill

White == RGB(Q(1), Q(1), Q(1))

\* the operations of a content stream that paint p, by position
Painting(ops, p) == { k \in 1..Len(ops) : Paints(ops[k], p) }

\* the colour p shows: that of the last operation painting it
LastPaint(ops, p) ==
    LET K == Painting(ops, p)
    IN  IF K = {} THEN White
        ELSE LET last == CHOOSE k \in K : \A j \in K : j <= k
             IN  PaintColour(ops[last], p)

\* one 8-bit sample of a channel value (round to nearest)
ToByte(c) == (2 * 255 * c.n + c.d) \div (2 * c.d)

\* the RGB pixel rendered at point p of a page content
Render(ops, p) ==
    LET c == LastPaint(ops, p)
    IN  <<ToByte(c[1]), ToByte(c[2]), ToByte(c[3])>>

\* ---------------------------------------------------------- rasterization
\* a rectangle with no interior
IsEmptyRect(r) == QLe(r.x1, r.x0) \/ QLe(r.y1, r.y0)

Intersect(r, s) == Rect(QMax(r.x0, s.x0), QMax(r.y0, s.y0), QMin(r.x1, s.x1), QMin(r.y1, s.y1))

\* page.get_pixmap(matrix=fitz.Matrix(zoom, zoom), clip=clip): the pixel grid of
\* the part of clip that lies on the page, zoom pixels per unit.  The pixel
\* data is everything Render yields on the content the page has at this moment
\* (content), so later drawing on the page does not change the pixmap.
get_pixmap(page, zoom, clip) ==
    LET r == Intersect(clip, page.rect)
        ix0 == QFloor(QMul(Q(zoom), r.x0))
        iy0 == QFloor(QMul(Q(zoom), r.y0))
        ix1 == QCeil(QMul(Q(zoom), r.x1))
        iy1 == QCeil(QMul(Q(zoom), r.y1))
    IN  IF IsEmptyRect(r)
        THEN [x |-> 0, y |-> 0, width |-> 0, height |-> 0, zoom |-> zoom, content |-> << >>]
        ELSE [x |-> ix0, y |-> iy0, width |-> ix1 - ix0, height |-> iy1 - iy0,
              zoom |-> zoom, content |-> page.ops]

\* centre of pixel (px, py) of a pixmap, in page coordinates
PixelCentre(pix, px, py) ==
    [x |-> [n |-> 2 * (pix.x + px) + 1, d |-> 2 * pix.zoom],
     y |-> [n |-> 2 * (pix.y + py) + 1, d |-> 2 * pix.zoom]]

\* pixels[px, py] of the image decoded from pix.tobytes("png") (PNG is lossless,
\* so the image has the pixmap's size and samples)
pixels(img, px, py) == Render(img.content, PixelCentre(img, px, py))

NoImage == [x |-> 0, y |-> 0, width |-> 0, height |-> 0, zoom |-> 0, content |-> << >>]

\* ------------------------------------------------ remove_watermark, per page
wm_x1(rect) == QSub(RectWidth(rect), Q(115))

wm_y1(rect) == QSub(RectHeight(rect), Q(30))

wm_x2(rect) == QSub(RectWidth(rect), Q(5))

wm_y2(rect) == QSub(RectHeight(rect), Q(5))

wm_rect(rect) == Rect(wm_x1(rect), wm_y1(rect), wm_x2(rect), wm_y2(rect))

sample_rect(rect) ==
    Rect(wm_x1(rect), QSub(wm_y1(rect), Q(10)), wm_x2(rect), QSub(wm_y1(rect), Q(2)))

\* pix = page.get_pixmap(matrix=fitz.Matrix(2, 2), clip=sample_rect)
sample_pixmap(page) == get_pixmap(page, 2, sample_rect(page.rect))

\* (mutant) floor division
col_width_FloorDiv(rect, img) ==
    Q(QFloor(QDiv(QSub(wm_x2(rect), wm_x1(rect)), Q(img.width))))

\* col_width = (wm_x2 - wm_x1) / img.width, for img.width > 0
col_width(rect, img) == QDiv(QSub(wm_x2(rect), wm_x1(rect)), Q(img.width))

\* (mutant) the top row of the strip is sampled
sample_row_Top(img) == 0

\* the row of the strip whose pixels are sampled
sample_row(img) == img.height \div 2

\* r, g, b = (c / 255 for c in pixels[x, img.height // 2][:3])
col_colour(img, x) ==
    LET px == SubSeq(pixels(img, x, sample_row(img)), 1, 3)
    IN  RGB(QDiv(Q(px[1]), Q(255)), QDiv(Q(px[2]), Q(255)), QDiv(Q(px[3]), Q(255)))

\* (mutant) the column reaches the bottom edge of the page
col_rect_ToPageBottom(rect, img, x) ==
    Rect(QAdd(wm_x1(rect), QMul(Q(x), col_width(rect, img))), wm_y1(rect),
         QAdd(wm_x1(rect), QMul(Q(x + 1), col_width(rect, img))), RectHeight(rect))

col_rect(rect, img, x) ==
    Rect(QAdd(wm_x1(rect), QMul(Q(x), col_width(rect, img))), wm_y1(rect),
         QAdd(wm_x1(rect), QMul(Q(x + 1), col_width(rect, img))), wm_y2(rect))

\* (mutant) the column is drawn over the sampling strip instead of the mark
draw_column_OnStrip(page, img, rect, x) ==
    LET rgb == col_colour(img, x)
    IN  draw_rect(page, [col_rect(rect, img, x) EXCEPT !.y0 = sample_rect(rect).y0,
                                                        !.y1 = sample_rect(rect).y1],
                  rgb, rgb)

\* one iteration of the column loop
draw_column(page, img, rect, x) ==
    LET rgb == col_colour(img, x)
    IN  draw_rect(page, col_rect(rect, img, x), rgb, rgb)

\* (mutant) the page is rebuilt at a default size before drawing
draw_columns_DefaultSize(page, img) ==
    [rect |-> Rect(Q(0), Q(0), Q(595), Q(842)),
     ops  |-> page.ops \o [k \in 1..img.width |->
                              draw_column(new_page(0, 0), img, page.rect, k - 1).ops[1]]]

\* for x in range(img.width): draw column x.  No iteration reads what an
\* earlier one drew (img was taken before the loop), so the loop appends the
\* operations of columns 0 .. img.width - 1 in that order.
draw_columns(page, img) ==
    [page EXCEPT !.ops =
        @ \o [k \in 1..img.width |-> draw_column(new_page(0, 0), img, page.rect, k - 1).ops[1]]]

\* ------------------------------------------------------- input documents
\* One page as tests/test_all.py's create_test_pdf builds it: a filled
\* background with a blue outline, and a grey mark on the watermark rectangle.
test_page(width, height) ==
    LET blank == new_page(width, height)
        bg    == draw_rect(blank, blank.rect, RGB(Pct(20), Pct(30), Pct(80)),
                           RGB(Pct(90), Pct(90), Pct(95)))
    IN  draw_rect(bg, wm_rect(bg.rect), RGB(Pct(50), Pct(50), Pct(50)),
                  RGB(Pct(50), Pct(50), Pct(50)))

\* The same page without the grey mark: nothing to remove.
clean_page(width, height) ==
    LET blank == new_page(width, height)
    IN  draw_rect(blank, blank.rect, RGB(Pct(20), Pct(30), Pct(80)),
                  RGB(Pct(90), Pct(90), Pct(95)))

\* A page whose background changes colour half way along the watermark (a
\* vertical band under the mark) and which has a thin red line through the top
\* rows of the sampling strip.
gradient_page(width, height) ==
    LET bg   == clean_page(width, height)
        band == draw_rect(bg, Rect(Q(width - 60), Q(height - 50), Q(width), Q(height)),
                          RGB(Pct(20), Pct(40), Pct(60)), RGB(Pct(20), Pct(40), Pct(60)))
        mark == draw_rect(band, wm_rect(bg.rect), RGB(Pct(50), Pct(50), Pct(50)),
                          RGB(Pct(50), Pct(50), Pct(50)))
    IN  draw_rect(mark, Rect(Q(width - 140), Q(height - 40), Q(width), Q(height - 38)),
                  RGB(Pct(80), Pct(10), Pct(10)), RGB(Pct(80), Pct(10), Pct(10)))

\* The kinds of page an input document is made of: US letter and A4 landscape
\* (the sizes of the tests), a page narrower than the watermark offset, and a
\* page smaller than the offsets of the sampling strip.
PageKinds ==
    { test_page(612, 792), clean_page(612, 792), gradient_page(842, 595),
      test_page(50, 100), test_page(3, 3) }

RECURSIVE SeqsUpTo(_, _)
SeqsUpTo(S, k) ==
    IF k = 0 THEN { << >> }
    ELSE LET shorter == SeqsUpTo(S, k - 1)
         IN  shorter \cup { Append(d, e) : d \in { t \in shorter : Len(t) = k - 1 }, e \in S }

Documents == SeqsUpTo(PageKinds, MaxPages)

\* a path of the file system: no file, or a document file
NoFile == [exists |-> FALSE, pages |-> << >>]

File(d) == [exists |-> TRUE, pages |-> d]

\* ------------------------------------------------------------------ state
VARIABLES
    inputFile,        \* what is at input_path
    outFile,          \* what is at output_path
    outFile0,         \* what was at output_path when the call began
    pc,               \* position in remove_watermark
    doc,              \* the pages of the open document (doc)
    docOpen,          \* the document handle is open
    cur,              \* number of the page the for loop is at (0 before the loop)
    img,              \* the decoded sampling strip of the current page
    pages_processed,
    result,           \* the returned dict's pages_processed (-1: nothing returned)
    err,              \* the exception that left the function ("" if none)
    visited           \* page numbers whose processing began, in order

vars == <<inputFile, outFile, outFile0, pc, doc, docOpen, cur, img,
          pages_processed, result, err, visited>>

Init ==
    /\ inputFile \in {NoFile} \cup { File(d) : d \in Documents }
    /\ outFile0 \in {NoFile, File(<<clean_page(612, 792)>>)}
    /\ outFile = outFile0
    /\ pc = "open"
    /\ doc = << >>
    /\ docOpen = FALSE
    /\ cur = 0
    /\ img = NoImage
    /\ pages_processed = 0
    /\ result = -1
    /\ err = ""
    /\ visited = << >>

\* an exception propagates out of remove_watermark
Raise(e) == pc' = "raised" /\ err' = e

\* (mutant) the loop stops one page early
MorePages_SkipLast(k, n) == k < n - 1

\* the for loop has another page after page number k of an n-page document
MorePages(k, n) == k < n

\* doc.save(output_path) accepts the document: it has at least one page
CanSave(d) == Len(d) > 0

\* (mutant) a missing input file opens as a new, empty document
Open_MissingAsEmpty ==
    /\ pc = "open"
    /\ doc' = inputFile.pages
    /\ docOpen' = TRUE
    /\ pages_processed' = 0
    /\ pc' = "for"
    /\ UNCHANGED <<inputFile, outFile, outFile0, cur, img, result, err,
                   visited>>

\* line 24-25: doc = fitz.open(input_path); pages_processed = 0
Open ==
    /\ pc = "open"
    /\ \/ /\ ~ inputFile.exists
          /\ Raise("FileNotFoundError")
          /\ UNCHANGED <<doc, docOpen, pages_processed>>
       \/ /\ inputFile.exists
          /\ doc' = inputFile.pages
          /\ docOpen' = TRUE
          /\ pages_processed' = 0
          /\ pc' = "for"
          /\ UNCHANGED err
    /\ UNCHANGED <<inputFile, outFile, outFile0, cur, img, result,
                   visited>>

\* line 27: for page in doc
ForPage ==
    /\ pc = "for"
    /\ \/ /\ MorePages(cur, Len(doc))
          /\ cur' = cur + 1
          /\ visited' = Append(visited, cur + 1)
          /\ pc' = "sample"
       \/ /\ ~ MorePages(cur, Len(doc))
          /\ pc' = "save"
          /\ UNCHANGED <<cur, visited>>
    /\ UNCHANGED <<inputFile, outFile, outFile0, doc, docOpen, img,
                   pages_processed, result, err>>

\* lines 28-40: the regions, the pixmap of the strip, its PNG, the image.
\* A strip that does not meet the page gives an empty pixmap: encoding or
\* decoding it raises, or it yields an image of width 0.
Sample ==
    /\ pc = "sample"
    /\ LET pix == sample_pixmap(doc[cur])
       IN  \/ /\ pix.width > 0 /\ pix.height > 0
              /\ img' = pix
              /\ pc' = "width"
              /\ UNCHANGED err
           \/ /\ pix.width = 0 \/ pix.height = 0
              /\ img' = pix
              /\ pc' = "width"
              /\ UNCHANGED err
           \/ /\ pix.width = 0 \/ pix.height = 0
              /\ Raise("RasterizationError")
              /\ UNCHANGED img
    /\ UNCHANGED <<inputFile, outFile, outFile0, doc, docOpen, cur,
                   pages_processed, result, visited>>

\* (mutant) the document is saved inside the page loop, after each page
DrawPage_SaveEachPage ==
    /\ pc = "width"
    /\ \/ /\ img.width = 0
          /\ Raise("ZeroDivisionError")
          /\ UNCHANGED <<doc, pages_processed, outFile>>
       \/ /\ img.width > 0
          /\ doc' = [doc EXCEPT ![cur] = draw_columns(@, img)]
          /\ pages_processed' = pages_processed + 1
          /\ outFile' = File(doc')
          /\ pc' = "for"
          /\ UNCHANGED err
    /\ UNCHANGED <<inputFile, outFile0, docOpen, cur, img, result, visited>>

\* lines 43-52: col_width, the column loop, pages_processed += 1
DrawPage ==
    /\ pc = "width"
    /\ \/ /\ img.width = 0
          /\ Raise("ZeroDivisionError")
          /\ UNCHANGED <<doc, pages_processed>>
       \/ /\ img.width > 0
          /\ doc' = [doc EXCEPT ![cur] = draw_columns(@, img)]
          /\ pages_processed' = pages_processed + 1
          /\ pc' = "for"
          /\ UNCHANGED err
    /\ UNCHANGED <<inputFile, outFile, outFile0, docOpen, cur, img,
                   result, visited>>

\* line 54: doc.save(output_path).  It writes the document, or raises: the
\* document has no page, or the file cannot be written (then nothing is written).
Save ==
    /\ pc = "save"
    /\ \/ /\ CanSave(doc)
          /\ outFile' = File(doc)
          /\ pc' = "close"
          /\ UNCHANGED err
       \/ /\ ~ CanSave(doc)
          /\ Raise("ValueError")
          /\ UNCHANGED outFile
       \/ /\ CanSave(doc)
          /\ Raise("OutputError")
          /\ UNCHANGED outFile
    /\ UNCHANGED <<inputFile, outFile0, doc, docOpen, cur, img,
                   pages_processed, result, visited>>

\* line 55: doc.close()
Close ==
    /\ pc = "close"
    /\ docOpen' = FALSE
    /\ pc' = "return"
    /\ UNCHANGED <<inputFile, outFile, outFile0, doc, cur, img,
                   pages_processed, result, err, visited>>

\* line 56: return {"pages_processed": pages_processed}
Return ==
    /\ pc = "return"
    /\ result' = pages_processed
    /\ pc' = "done"
    /\ UNCHANGED <<inputFile, outFile, outFile0, doc, docOpen, cur, img,
                   pages_processed, err, visited>>

Next == Open \/ ForPage \/ Sample \/ DrawPage \/ Save \/ Close \/ Return

Spec == Init /\ [][Next]_vars

\* ============================================================== properties
\* Definitions used to state the claims.

\* the n-page input document and what the call made of page k
InPages == inputFile.pages

NPages == Len(inputFile.pages)

\* pages whose processing is complete
Processed == 1..pages_processed

\* the operations processing added to page k of the open document
Added(k) == SubSeq(doc[k].ops, Len(InPages[k].ops) + 1, Len(doc[k].ops))

\* the sampling strip of input page k, and its sampled colours
Strip(k) == sample_pixmap(InPages[k])

\* page k is being processed by this step
Processing(k) == pc = "width" /\ k = cur /\ pc' = "for"

\* what the step added to page k
AddedNow(k) == SubSeq(doc'[k].ops, Len(doc[k].ops) + 1, Len(doc'[k].ops))

Succeeded == pc = "done"

Failed == pc = "raised"

\* the watermark region of a page as tests/test_all.py reads it:
\* page.get_pixmap(clip=wm_rect), a subset of its pixels (corners, edges, middle)
WmPixmap(page) == get_pixmap(page, 1, wm_rect(page.rect))

ProbeCols(w) == IF w = 0 THEN {} ELSE {0, w \div 4, w \div 2, (3 * w) \div 4, w - 1}

ProbeRows(h) == IF h = 0 THEN {} ELSE {0, h \div 2, h - 1}

WmPixels(page) ==
    LET pm == WmPixmap(page)
    IN  [pr \in ProbeCols(pm.width) \X ProbeRows(pm.height) |-> pixels(pm, pr[1], pr[2])]

\* ---------------------------------------------------------------------- C1
\* C1: a successful call has visited every page exactly once, in page order,
\* returns pages_processed = n, and the saved document has exactly n pages.
C1_PageCountInvariance ==
    Succeeded =>
        /\ visited = [k \in 1..NPages |-> k]
        /\ result = NPages
        /\ outFile.exists
        /\ Len(outFile.pages) = NPages

C1_Witness == Succeeded /\ NPages >= 2 /\ result = NPages

\* ---------------------------------------------------------------------- C2
\* C2: output page i has the width and height of input page i, and is input
\* page i (its original content comes first): no page is resized, reordered,
\* inserted or deleted.
C2_DimensionInvariance ==
    Succeeded =>
        /\ Len(outFile.pages) = NPages
        /\ \A k \in 1..NPages :
              /\ QEq(RectWidth(outFile.pages[k].rect), RectWidth(InPages[k].rect))
              /\ QEq(RectHeight(outFile.pages[k].rect), RectHeight(InPages[k].rect))
              /\ Len(outFile.pages[k].ops) >= Len(InPages[k].ops)
              /\ SubSeq(outFile.pages[k].ops, 1, Len(InPages[k].ops)) = InPages[k].ops

C2_Witness ==
    /\ Succeeded
    /\ NPages >= 2
    /\ ~ QEq(RectWidth(InPages[1].rect), RectWidth(InPages[2].rect))
    /\ ~ QEq(RectHeight(InPages[1].rect), RectHeight(InPages[2].rect))

\* ---------------------------------------------------------------------- C3
\* the colours the row sampled from the strip of input page k holds
SampledColours(k) ==
    LET strip == Strip(k)
    IN  { pixels(strip, x, strip.height \div 2) : x \in 0..(strip.width - 1) }

\* the watermark region of input page k shows a colour the background sampled
\* above it does not have
MarkVisible(k) ==
    LET colours == SampledColours(k)
        shown   == WmPixels(InPages[k])
    IN  \E pr \in DOMAIN shown : shown[pr] \notin colours

\* C3: on every page whose watermark region differs from the background
\* sampled above it, the region's pixel data in the output differs from that
\* in the input; each page of a multi-page document on its own.
C3_RegionMutation ==
    Succeeded =>
        \A k \in 1..NPages :
            MarkVisible(k) => WmPixels(outFile.pages[k]) # WmPixels(InPages[k])

C3_Witness ==
    /\ Succeeded
    /\ NPages >= 2
    /\ \A k \in 1..NPages : MarkVisible(k)
    /\ InPages[1] # InPages[2]

\* ---------------------------------------------------------------------- C4
\* C4: with no readable document at the input path the call raises before any
\* page is processed, and the output path is left as it was (no file created).
C4_InvalidInput ==
    (~ inputFile.exists /\ pc # "open") =>
        /\ Failed
        /\ err = "FileNotFoundError"
        /\ visited = << >>
        /\ pages_processed = 0
        /\ result = -1
        /\ outFile = outFile0

C4_Witness == ~ inputFile.exists /\ Failed /\ ~ outFile.exists

\* ---------------------------------------------------------------------- C5
\* C5: the output path is written only by the save step, taken after every
\* page has been processed; a call that fails while processing a page leaves
\* the output path as it was (no file, partial or complete, is created).
C5_SaveAfterAllPages ==
    /\ [][outFile' # outFile =>
            /\ pc = "save"
            /\ pages_processed = Len(doc)
            /\ visited = [k \in 1..Len(doc) |-> k]]_vars
    /\ []((Failed /\ err \in {"RasterizationError", "ZeroDivisionError"}) =>
            outFile = outFile0)

C5_Witness ==
    /\ Failed
    /\ err \in {"RasterizationError", "ZeroDivisionError"}
    /\ cur = 2
    /\ pages_processed = 1
    /\ ~ outFile.exists

\* ---------------------------------------------------------------------- C6
\* page k of the open document is narrower than the watermark offset
Narrow(k) == QLt(RectWidth(doc[k].rect), Q(115))

\* the call failed while processing page k
FailedOn(k) == Failed /\ cur = k /\ err \in {"RasterizationError", "ZeroDivisionError"}

\* C6: a page narrower than 115 units does not make the call fail, nothing is
\* drawn on it, and it is counted: the call goes on to the remaining pages.
C6_NarrowPageSkipped ==
    \A k \in 1..Len(doc) :
        Narrow(k) =>
            /\ ~ FailedOn(k)
            /\ doc[k].ops = InPages[k].ops
            /\ (Succeeded => result = NPages)

\* the two ways the code departs from C6, each reached by the model
C6_NarrowPageDrawnOn ==
    \E k \in Processed : Narrow(k) /\ Len(Added(k)) > 0

C6_NarrowPageFails ==
    \E k \in 1..Len(doc) : Narrow(k) /\ FailedOn(k)

\* ---------------------------------------------------------------------- C7
\* the width of the watermark rectangle of a page rectangle
WmWidth(rect) == QSub(wm_x2(rect), wm_x1(rect))

\* C7: processing a page, with c >= 1 the pixel width of its rasterized
\* strip, draws exactly c rectangles, in column order; rectangle x spans
\* wm_y1..wm_y2 and wm_x1 + x*(W/c) .. wm_x1 + (x+1)*(W/c); neighbours share an
\* edge and none is empty, the first starts at wm_x1 and the last ends at wm_x2.
C7_ColumnRectangles ==
    [][\A k \in 1..Len(doc) : Processing(k) =>
          LET c    == img.width
              rect == doc[k].rect
              new  == AddedNow(k)
          IN  /\ c = sample_pixmap(doc[k]).width
              /\ c >= 1
              /\ Len(new) = c
              /\ \A x \in 0..(c - 1) :
                    LET r == new[x + 1].rect
                    IN  /\ QEq(r.y0, wm_y1(rect))
                        /\ QEq(r.y1, wm_y2(rect))
                        /\ QEq(QMul(Q(c), QSub(r.x0, wm_x1(rect))), QMul(Q(x), WmWidth(rect)))
                        /\ QEq(QMul(Q(c), QSub(r.x1, wm_x1(rect))), QMul(Q(x + 1), WmWidth(rect)))
                        /\ QLt(r.x0, r.x1)
              /\ \A x \in 1..(c - 1) : QEq(new[x].rect.x1, new[x + 1].rect.x0)
              /\ QEq(new[1].rect.x0, wm_x1(rect))
              /\ QEq(new[c].rect.x1, wm_x2(rect))
      ]_vars

C7_Witness ==
    /\ pages_processed = 2
    /\ Len(Added(1)) = 220
    /\ Len(Added(2)) = 90
    /\ sample_pixmap(InPages[2]).width = 90

\* ---------------------------------------------------------------------- C8
\* every pixel of the probed rows of the strip of input page k has colour px
StripUniform(k, px) ==
    LET strip == Strip(k)
    IN  \A y \in ProbeRows(strip.height) :
            \A x \in 0..(strip.width - 1) : pixels(strip, x, y) = px

\* C8: the rectangle drawn for column x of a page has, as outline and as fill,
\* the RGB value of pixel (x, height div 2) of the strip of that page as it was
\* before anything was drawn on it; so where that strip is of one colour, every
\* pixel column of the watermark region of the output page has that colour
\* (every column of the middle pixel row, and the probed pixels of the region).
C8_SampledColours ==
    /\ [][\A k \in 1..Len(doc) : Processing(k) =>
            LET strip == sample_pixmap(doc[k])
                new   == AddedNow(k)
            IN  /\ doc[k] = InPages[k]
                /\ Len(new) = strip.width
                /\ \A x \in 0..(strip.width - 1) :
                      LET px == pixels(strip, x, strip.height \div 2)
                          op == new[x + 1]
                      IN  /\ op.color = op.fill
                          /\ Len(op.fill) = 3
                          /\ \A ch \in 1..3 : QEq(op.fill[ch], QDiv(Q(px[ch]), Q(255)))
         ]_vars
    /\ [](Succeeded =>
            \A k \in 1..NPages :
                LET px == pixels(Strip(k), 0, 0)
                    pm == WmPixmap(outFile.pages[k])
                    shown == WmPixels(outFile.pages[k])
                IN  StripUniform(k, px) =>
                        /\ \A x \in 0..(pm.width - 1) : pixels(pm, x, pm.height \div 2) = px
                        /\ \A pr \in DOMAIN shown : shown[pr] = px)

C8_Witness ==
    /\ Succeeded
    /\ \E k \in 1..NPages :
          /\ StripUniform(k, pixels(Strip(k), 0, 0))
          /\ MarkVisible(k)
    /\ \E k \in 1..NPages : Cardinality(SampledColours(k)) > 1

\* ---------------------------------------------------------------------- C9
\* C9: once remove_watermark has exited, normally or with an exception, the
\* document handle it opened is closed.
C9_HandleReleased == (Succeeded \/ Failed) => ~ docOpen

\* the handle is left open by an exit through an exception
C9_LeakOnError == Failed /\ docOpen

\* --------------------------------------------------------------------- C10
\* points at distance d outside each side of rectangle r, and one well inside
\* the page away from it
FrameProbes(r, d) ==
    LET xs == {QAdd(r.x0, Q(10)), QDiv(QAdd(r.x0, r.x1), Q(2)), QSub(r.x1, Q(10))}
        ys == {QAdd(r.y0, Q(5)), QDiv(QAdd(r.y0, r.y1), Q(2)), QSub(r.y1, Q(5))}
    IN  { [x |-> x, y |-> y] : x \in xs, y \in {QSub(r.y0, d), QAdd(r.y1, d)} }
        \cup { [x |-> x, y |-> y] : x \in {QSub(r.x0, d), QAdd(r.x1, d)}, y \in ys }

\* the strip lies above the rectangle grown by h, over the same horizontal extent
StripClearOf(rect, h) ==
    /\ QLt(sample_rect(rect).y0, sample_rect(rect).y1)
    /\ QLt(sample_rect(rect).y1, QSub(wm_y1(rect), h))
    /\ QEq(sample_rect(rect).x0, wm_x1(rect))
    /\ QEq(sample_rect(rect).x1, wm_x2(rect))

\* no step changes a page other than the one it processes
OtherPagesKept ==
    \A k \in 1..Len(doc) : (pc # "open" /\ ~ Processing(k)) => doc'[k] = doc[k]

\* page k shows at p after the step what it showed before
SameAt(k, p) == Render(doc'[k].ops, p) = Render(doc[k].ops, p)

\* the strip of page k has after the step the pixels it had before (at the
\* probed columns and rows)
StripUnchanged(k) ==
    LET before == sample_pixmap(doc[k])
        after  == sample_pixmap(doc'[k])
    IN  /\ after.width = before.width
        /\ after.height = before.height
        /\ \A x \in ProbeCols(before.width) : \A y \in ProbeRows(before.height) :
              pixels(after, x, y) = pixels(before, x, y)

\* C10 as claimed: processing page k changes its content only inside the
\* watermark rectangle (content a quarter unit outside it is as it was), leaves
\* the strip unchanged and changes no other page.
C10_OnlyWatermarkRect ==
    [][/\ OtherPagesKept
       /\ \A k \in 1..Len(doc) : Processing(k) =>
             /\ StripUnchanged(k)
             /\ \A p \in FrameProbes(wm_rect(doc[k].rect), [n |-> 1, d |-> 4]) : SameAt(k, p)
      ]_vars

\* C10 as amended: every rectangle that processing adds to page k lies within
\* the watermark rectangle and is outlined with a line of width 1, so only the
\* watermark rectangle and the half unit around it are painted; the strip is
\* clear of that area and unchanged, content outside that area is unchanged,
\* the page keeps its size and its earlier content, and no other page changes.
C10_OnlyWatermarkRectAndOutline ==
    [][/\ OtherPagesKept
       /\ \A k \in 1..Len(doc) : Processing(k) =>
             LET rect == doc[k].rect
             IN  /\ doc'[k].rect = rect
                 /\ SubSeq(doc'[k].ops, 1, Len(doc[k].ops)) = doc[k].ops
                 /\ \A j \in 1..Len(AddedNow(k)) :
                       LET op == AddedNow(k)[j]
                       IN  /\ QLe(wm_x1(rect), op.rect.x0) /\ QLe(op.rect.x1, wm_x2(rect))
                           /\ QLe(wm_y1(rect), op.rect.y0) /\ QLe(op.rect.y1, wm_y2(rect))
                           /\ QEq(op.width, Q(1))
                 /\ StripClearOf(rect, [n |-> 1, d |-> 2])
                 /\ StripUnchanged(k)
                 /\ \A p \in FrameProbes(wm_rect(rect), [n |-> 3, d |-> 4]) : SameAt(k, p)
      ]_vars

\* the second page of a document has been processed, and a pixel a quarter
\* unit outside its watermark rectangle no longer shows what the input showed
C10_Witness ==
    /\ pages_processed = 2
    /\ \E p \in FrameProbes(wm_rect(InPages[2].rect), [n |-> 1, d |-> 4]) :
          Render(doc[2].ops, p) # Render(InPages[2].ops, p)

=============================================================================
